---- MODULE Spec2Model ----
(***************************************************************************)
(* Model of the template MCP server's multiply tool and of the response    *)
(* formatter it returns through.                                           *)
(*                                                                         *)
(*   src/template_mcp_server/src/tools/multiply_tool.py  multiply_numbers  *)
(*   src/template_mcp_server/utils/toon_utils.py         to_toon,          *)
(*                                     from_toon, format_response          *)
(*                                                                         *)
(* Values are tagged records.  A float is an exact rational num/den in     *)
(* lowest terms (the inputs are dyadic, so every product is exact); signed *)
(* zero, infinities and NaN are not modelled.  A string is a sequence of   *)
(* atoms: single characters where the text is inspected (digits, signs,    *)
(* punctuation, input strings), whole chunks for the fixed wording of      *)
(* messages.                                                               *)
(***************************************************************************)
EXTENDS Integers, Sequences, FiniteSets, TLC

(***************************************************************************)
(* Bounds of the model.                                                    *)
(***************************************************************************)
\* largest magnitude of the ordinary integer arguments
MaxInt == 3
\* largest length of a sequence or mapping handed to the codec
MaxLen == 2

(***************************************************************************)
(* The Python runtime's limits, scaled down to the model's integers.       *)
(***************************************************************************)
\* an int beyond this magnitude cannot be converted to float
\* (sys.float_info.max): int * float raises OverflowError
FloatIntMax == 30
\* an int beyond this magnitude cannot be rendered as decimal text
\* (sys.get_int_max_str_digits()): the f-string raises ValueError
IntStrMax == 200
\* an integer argument between the two limits
BigInt == 40

(***************************************************************************)
(* Values                                                                  *)
(***************************************************************************)
Abs(n) == IF n < 0 THEN -n ELSE n

RECURSIVE Gcd(_, _)
Gcd(m, n) == IF n = 0 THEN m ELSE Gcd(n, m % n)

RECURSIVE Pow(_, _)
Pow(base, k) == IF k = 0 THEN 1 ELSE base * Pow(base, k - 1)

Null == [t |-> "null"]
BoolV(x) == [t |-> "bool", b |-> x]
IntV(n) == [t |-> "int", i |-> n]
StrV(cs) == [t |-> "str", s |-> cs]
ListV(xs) == [t |-> "list", items |-> xs]
DictV(es) == [t |-> "dict", entries |-> es]

\* the float num/den, in lowest terms with a positive denominator
FloatV(n, d) ==
    LET g == Gcd(Abs(n), d)
    IN  [t |-> "float", num |-> n \div g, den |-> d \div g]

Entry(key, val) == [k |-> key, v |-> val]

Keys(d) == {d.entries[j].k : j \in 1..Len(d.entries)}

Has(d, key) == d.t = "dict" /\ key \in Keys(d)

Get(d, key) ==
    LET j == CHOOSE j \in 1..Len(d.entries) : d.entries[j].k = key
    IN  d.entries[j].v

(***************************************************************************)
(* Python semantics used by multiply_numbers                               *)
(***************************************************************************)
NoExc == [cls |-> "none"]
Exc(class, text) == [cls |-> class, msg |-> text]

\* isinstance(v, (int, float)): bool is a subclass of int
IsIntOrFloat(v) == v.t \in {"int", "float", "bool"}

\* the int a bool or int operand stands for
IntOf(v) == IF v.t = "bool" THEN (IF v.b THEN 1 ELSE 0) ELSE v.i

\* float(v) for an int or bool operand that is in range
ToFloat(v) == IF v.t = "float" THEN v ELSE FloatV(IntOf(v), 1)

\* a * b raises OverflowError when an int operand is out of float range
MulRaises(x, y) ==
    /\ "float" \in {x.t, y.t}
    /\ \E v \in {x, y} : v.t # "float" /\ Abs(IntOf(v)) > FloatIntMax

\* a slip: float(a) * float(b), a float even for two ints
Mul_AlwaysFloat(x, y) ==
    LET fx == ToFloat(x)
        fy == ToFloat(y)
    IN  FloatV(fx.num * fy.num, fx.den * fy.den)

\* a slip: a - b in place of a * b
Mul_Minus(x, y) ==
    IF x.t # "float" /\ y.t # "float"
    THEN IntV(IntOf(x) - IntOf(y))
    ELSE LET fx == ToFloat(x)
             fy == ToFloat(y)
         IN  FloatV(fx.num * fy.den - fy.num * fx.den, fx.den * fy.den)

\* a * b: int when both operands are int (or bool), float otherwise
Mul(x, y) ==
    IF x.t # "float" /\ y.t # "float"
    THEN IntV(IntOf(x) * IntOf(y))
    ELSE LET fx == ToFloat(x)
             fy == ToFloat(y)
         IN  FloatV(fx.num * fy.num, fx.den * fy.den)

Digit(d) == <<"0", "1", "2", "3", "4", "5", "6", "7", "8", "9">>[d + 1]

RECURSIVE NatChars(_)
NatChars(n) == IF n < 10 THEN <<Digit(n)>> ELSE Append(NatChars(n \div 10), Digit(n % 10))

\* the decimal text of an int
IntChars(n) == IF n < 0 THEN <<"-">> \o NatChars(-n) ELSE NatChars(n)

\* n as exactly k decimal digits, zero-padded on the left
RECURSIVE Padded(_, _)
Padded(n, k) == IF k = 0 THEN <<>> ELSE Append(Padded(n \div 10, k - 1), Digit(n % 10))

RECURSIVE Log2(_)
Log2(d) == IF d <= 1 THEN 0 ELSE 1 + Log2(d \div 2)

\* repr of a float num/2^k: the exact decimal, with ".0" when it is integral
FloatChars(f) ==
    LET k      == Log2(f.den)
        scaled == Abs(f.num) * Pow(5, k)
        ip     == scaled \div Pow(10, k)
        fp     == scaled % Pow(10, k)
        sign   == IF f.num < 0 THEN <<"-">> ELSE <<>>
    IN  sign \o NatChars(ip) \o <<".">> \o (IF k = 0 THEN <<"0">> ELSE Padded(fp, k))

\* formatting v inside an f-string raises ValueError for an int with too many digits
FmtRaises(v) == v.t = "int" /\ Abs(v.i) > IntStrMax

\* the text of v inside an f-string
PyStr(v) ==
    CASE v.t = "bool"  -> <<(IF v.b THEN "True" ELSE "False")>>
      [] v.t = "int"   -> IntChars(v.i)
      [] v.t = "float" -> FloatChars(v)

OverflowMsg == StrV(<<"int too large to convert to float">>)
DigitsMsg ==
    StrV(<<"Exceeds the limit (4300 digits) for integer string conversion; use sys.set_int_max_str_digits() to increase the limit">>)

(***************************************************************************)
(* Serialization codec (toon_format.encode / toon_format.decode).          *)
(* The library is not part of the source tree; it is modelled from section *)
(* 4.1 of the specification.  A document is a sequence of lines; a line    *)
(* has an indentation depth, an optional key, an optional array header     *)
(* [N] or [N]{f1,f2}, and the scalar literals that follow the colon.  A    *)
(* literal is its text, character by character, and whether it is quoted.  *)
(***************************************************************************)
NoHdr == -1
ParseError == [t |-> "error"]

Lit(quoted, chars) == [q |-> quoted, cs |-> chars]
Line(depth, haskey, key, hdr, fields, toks) ==
    [ind |-> depth, keyed |-> haskey, k |-> key, n |-> hdr, f |-> fields, toks |-> toks]

TrueChars == <<"t", "r", "u", "e">>
FalseChars == <<"f", "a", "l", "s", "e">>
NullChars == <<"n", "u", "l", "l">>
Digits == {"0", "1", "2", "3", "4", "5", "6", "7", "8", "9"}
\* characters that collide with the notation's own syntax
SpecialChars == {":", ",", "\"", "\\", "\n", "[", "]", "{", "}"}

IsScalar(v) == v.t \in {"null", "bool", "int", "float", "str"}

AllDigits(cs) == cs # <<>> /\ \A j \in 1..Len(cs) : cs[j] \in Digits

\* cs reads as a number: -?digits(.digits)?
LooksNumeric(cs) ==
    LET body == IF cs # <<>> /\ cs[1] = "-" THEN Tail(cs) ELSE cs
        dots == {j \in 1..Len(body) : body[j] = "."}
    IN  \/ AllDigits(body)
        \/ \E j \in dots : /\ dots = {j}
                           /\ AllDigits(SubSeq(body, 1, j - 1))
                           /\ AllDigits(SubSeq(body, j + 1, Len(body)))

\* a string is quoted when its bare text would be read as something else
NeedsQuote(cs) ==
    \/ cs = <<>>
    \/ cs \in {TrueChars, FalseChars, NullChars}
    \/ LooksNumeric(cs)
    \/ \E j \in 1..Len(cs) : cs[j] \in SpecialChars
    \/ cs[1] \in {" ", "-"}
    \/ cs[Len(cs)] = " "

RECURSIVE Escape(_)
Escape(cs) ==
    IF cs = <<>> THEN <<>>
    ELSE (CASE Head(cs) = "\n" -> <<"\\", "n">>
            [] Head(cs) \in {"\"", "\\"} -> <<"\\", Head(cs)>>
            [] OTHER -> <<Head(cs)>>) \o Escape(Tail(cs))

RECURSIVE Unescape(_)
Unescape(cs) ==
    IF cs = <<>> THEN <<>>
    ELSE IF Head(cs) = "\\" /\ Len(cs) >= 2
         THEN <<(IF cs[2] = "n" THEN "\n" ELSE cs[2])>> \o Unescape(Tail(Tail(cs)))
         ELSE <<Head(cs)>> \o Unescape(Tail(cs))

\* the literal of a scalar: integers without a decimal point, floats with one
EncodeScalar(v) ==
    CASE v.t = "null"  -> Lit(FALSE, NullChars)
      [] v.t = "bool"  -> Lit(FALSE, IF v.b THEN TrueChars ELSE FalseChars)
      [] v.t = "int"   -> Lit(FALSE, IntChars(v.i))
      [] v.t = "float" -> Lit(FALSE, FloatChars(v))
      [] v.t = "str"   -> IF NeedsQuote(v.s) THEN Lit(TRUE, Escape(v.s)) ELSE Lit(FALSE, v.s)

DigitVal(c) == CHOOSE d \in 0..9 : Digit(d) = c

RECURSIVE NatOf(_)
NatOf(cs) == IF cs = <<>> THEN 0 ELSE 10 * NatOf(SubSeq(cs, 1, Len(cs) - 1)) + DigitVal(cs[Len(cs)])

\* the number a numeric literal denotes: a float exactly when it has a decimal point
ParseNumber(cs) ==
    LET neg  == cs[1] = "-"
        body == IF neg THEN Tail(cs) ELSE cs
        sgn  == IF neg THEN -1 ELSE 1
        dots == {j \in 1..Len(body) : body[j] = "."}
    IN  IF dots = {} THEN IntV(sgn * NatOf(body))
        ELSE LET j  == CHOOSE j \in dots : TRUE
                 ip == NatOf(SubSeq(body, 1, j - 1))
                 fr == SubSeq(body, j + 1, Len(body))
             IN  FloatV(sgn * (ip * Pow(10, Len(fr)) + NatOf(fr)), Pow(10, Len(fr)))

\* the scalar a literal denotes
DecodeScalar(l) ==
    IF l.q THEN StrV(Unescape(l.cs))
    ELSE CASE l.cs = NullChars    -> Null
           [] l.cs = TrueChars    -> BoolV(TRUE)
           [] l.cs = FalseChars   -> BoolV(FALSE)
           [] LooksNumeric(l.cs)  -> ParseNumber(l.cs)
           [] OTHER               -> StrV(l.cs)

\* every element is a scalar (an empty sequence included): the inline form
AllScalars(xs) == \A j \in 1..Len(xs) : IsScalar(xs[j])

KeySeq(d) == [j \in 1..Len(d.entries) |-> d.entries[j].k]

\* a uniform tabular sequence: mappings with one shared, non-empty key list and scalar values
IsTabular(xs) ==
    /\ xs # <<>>
    /\ \A j \in 1..Len(xs) :
          /\ xs[j].t = "dict"
          /\ xs[j].entries # <<>>
          /\ KeySeq(xs[j]) = KeySeq(xs[1])
          /\ \A e \in 1..Len(xs[j].entries) : IsScalar(xs[j].entries[e].v)

\* key[N]: v1,v2   or   key[N]{f1,f2}: followed by one row of values per element
EncodeArray(depth, haskey, key, xs) ==
    CASE AllScalars(xs) ->
           <<Line(depth, haskey, key, Len(xs), <<>>, [j \in 1..Len(xs) |-> EncodeScalar(xs[j])])>>
      [] IsTabular(xs) ->
           <<Line(depth, haskey, key, Len(xs), KeySeq(xs[1]), <<>>)>>
           \o [j \in 1..Len(xs) |->
                 Line(depth + 1, FALSE, "", NoHdr, <<>>,
                      [e \in 1..Len(xs[j].entries) |-> EncodeScalar(xs[j].entries[e].v)])]

RECURSIVE EncodeEntries(_, _)
\* one "key: value" line per entry, in insertion order; nested values indent under their key
EncodeEntries(es, depth) ==
    IF es = <<>> THEN <<>>
    ELSE LET key == Head(es).k
             v   == Head(es).v
             own == CASE IsScalar(v)  -> <<Line(depth, TRUE, key, NoHdr, <<>>, <<EncodeScalar(v)>>)>>
                      [] v.t = "list" -> EncodeArray(depth, TRUE, key, v.items)
                      [] v.t = "dict" -> <<Line(depth, TRUE, key, NoHdr, <<>>, <<>>)>>
                                         \o EncodeEntries(v.entries, depth + 1)
         IN  own \o EncodeEntries(Tail(es), depth)

\* toon_format.encode: the document of a value
Encode(v) ==
    CASE IsScalar(v)  -> <<Line(0, FALSE, "", NoHdr, <<>>, <<EncodeScalar(v)>>)>>
      [] v.t = "list" -> EncodeArray(0, FALSE, "", v.items)
      [] v.t = "dict" -> EncodeEntries(v.entries, 0)

\* the sequence an array header line and the lines under it denote
DecodeArray(ln, children) ==
    IF ln.f = <<>>
    THEN IF Len(ln.toks) # ln.n \/ children # <<>> THEN ParseError
         ELSE ListV([j \in 1..ln.n |-> DecodeScalar(ln.toks[j])])
    ELSE IF \/ Len(children) # ln.n
            \/ ln.toks # <<>>
            \/ \E j \in 1..Len(children) :
                  \/ children[j].keyed
                  \/ children[j].n # NoHdr
                  \/ children[j].ind # ln.ind + 1
                  \/ Len(children[j].toks) # Len(ln.f)
         THEN ParseError
         ELSE ListV([j \in 1..ln.n |->
                       DictV([e \in 1..Len(ln.f) |->
                                Entry(ln.f[e], DecodeScalar(children[j].toks[e]))])])

\* the index of the first line from j on that is not deeper than depth
RECURSIVE NextSibling(_, _, _)
NextSibling(lines, j, depth) ==
    IF j > Len(lines) \/ lines[j].ind <= depth THEN j
    ELSE NextSibling(lines, j + 1, depth)

RECURSIVE DecodeEntries(_, _)
\* the entries of the mapping whose lines sit at the given depth
DecodeEntries(lines, depth) ==
    IF lines = <<>> THEN <<>>
    ELSE LET ln       == Head(lines)
             nxt      == NextSibling(lines, 2, depth)
             children == SubSeq(lines, 2, nxt - 1)
             v == CASE ~ln.keyed \/ ln.ind # depth -> ParseError
                    [] ln.keyed /\ ln.ind = depth /\ ln.n # NoHdr -> DecodeArray(ln, children)
                    [] ln.keyed /\ ln.ind = depth /\ ln.n = NoHdr /\ ln.toks # <<>> ->
                         IF Len(ln.toks) = 1 /\ children = <<>>
                         THEN DecodeScalar(ln.toks[1]) ELSE ParseError
                    [] OTHER -> DictV(DecodeEntries(children, depth + 1))
         IN  <<Entry(ln.k, v)>> \o DecodeEntries(SubSeq(lines, nxt, Len(lines)), depth)

RECURSIVE Malformed(_)
\* a parse error anywhere in the decoded value fails the whole decode
Malformed(v) ==
    CASE v.t = "error" -> TRUE
      [] v.t = "list"  -> \E j \in 1..Len(v.items) : Malformed(v.items[j])
      [] v.t = "dict"  -> \E j \in 1..Len(v.entries) : Malformed(v.entries[j].v)
      [] OTHER         -> FALSE

\* toon_format.decode: the value of a document, or a parse error
Decode(doc) ==
    LET v == CASE doc = <<>> -> DictV(<<>>)
               [] doc # <<>> /\ ~doc[1].keyed /\ doc[1].n = NoHdr ->
                    IF Len(doc) = 1 /\ Len(doc[1].toks) = 1 /\ doc[1].ind = 0
                    THEN DecodeScalar(doc[1].toks[1]) ELSE ParseError
               [] doc # <<>> /\ ~doc[1].keyed /\ doc[1].n # NoHdr ->
                    IF doc[1].ind = 0 THEN DecodeArray(doc[1], Tail(doc)) ELSE ParseError
               [] OTHER -> DictV(DecodeEntries(doc, 0))
    IN  IF Malformed(v) THEN ParseError ELSE v

(***************************************************************************)
(* toon_utils.py                                                           *)
(***************************************************************************)
\* a TOON-formatted string
Text(doc) == [t |-> "text", doc |-> doc]

\* a slip: the data wrapped in an outer mapping before it is encoded
to_toon_Wrapped(data) == Text(Encode(DictV(<<Entry("data", data)>>)))

to_toon(data) == Text(Encode(data))

\* a slip: the string handed back without being decoded
from_toon_Raw(toon_str) == toon_str

from_toon(toon_str) == Decode(toon_str.doc)

\* the superseded variant: always the TOON string
format_response_AlwaysText(data, enabled) == to_toon(data)

\* the TOON string when the setting is on, the data itself otherwise
format_response(data, enabled) == IF enabled THEN to_toon(data) ELSE data

(***************************************************************************)
(* multiply_tool.py: one invocation of multiply_numbers, statement by      *)
(* statement.  An invocation is a record: its position pc, its arguments,  *)
(* its locals, the exception in flight, the value handed back, the log     *)
(* events it has emitted and the number of format_response calls it made.  *)
(***************************************************************************)
Unset == [t |-> "unset"]

ValidationMsg == StrV(<<"Both inputs must be numbers">>)
FailureMsg == StrV(<<"Failed to perform multiplication">>)

\* the arguments a caller may pass
IntArgs == {-MaxInt, 0, 2, MaxInt, BigInt}
FloatArgs == {FloatV(-3, 2), FloatV(0, 1), FloatV(1, 2), FloatV(2, 1)}
Args ==
    {Null, BoolV(TRUE), BoolV(FALSE)}
    \cup {IntV(n) : n \in IntArgs}
    \cup FloatArgs
    \cup {StrV(<<"5">>), StrV(<<"h", "i">>), ListV(<<IntV(1), IntV(2)>>), DictV(<<>>)}

NewCall(x, y) ==
    [pc |-> "received", a |-> x, b |-> y, result |-> Unset, exc |-> NoExc,
     envelope |-> Unset, ret |-> Unset, log |-> <<>>, fmt |-> 0]

\* a slip: except ValueError
Catches_ValueErrorOnly(e) == e.cls = "ValueError"

\* except Exception: every exception class the body can raise is a subclass
Catches(e) == e.cls \in {"ValueError", "OverflowError"}

\* an exception raised inside the try block
Raise(c, e) == [c EXCEPT !.exc = e, !.pc = IF Catches(e) THEN "failed" ELSE "raised"]

\* try:
EnterTry(c) == [c EXCEPT !.pc = "validating"]

\* if not isinstance(a, (int, float)) or not isinstance(b, (int, float)): raise ValueError(...)
Validate(c) ==
    IF ~IsIntOrFloat(c.a) \/ ~IsIntOrFloat(c.b)
    THEN [c EXCEPT !.exc = Exc("ValueError", ValidationMsg), !.pc = "failed_validation"]
    ELSE [c EXCEPT !.pc = "computing"]

\* except Exception as e:
Catch(c) == Raise(c, c.exc)

\* result = a * b
Compute(c) ==
    IF MulRaises(c.a, c.b) THEN Raise(c, Exc("OverflowError", OverflowMsg))
    ELSE [c EXCEPT !.result = Mul(c.a, c.b), !.pc = "computed"]

LogEvent(lvl, text) == [level |-> lvl, msg |-> text]

\* logger.info(f"Multiply tool called: {a} * {b} = {result}")
LogInfo(c) ==
    IF FmtRaises(c.a) \/ FmtRaises(c.b) \/ FmtRaises(c.result)
    THEN Raise(c, Exc("ValueError", DigitsMsg))
    ELSE [c EXCEPT !.log = Append(@, LogEvent("info",
                               <<"Multiply tool called: ">> \o PyStr(c.a) \o <<" * ">>
                               \o PyStr(c.b) \o <<" = ">> \o PyStr(c.result))),
                   !.pc = "info_logged"]

SuccessEnvelope(x, y, product) ==
    DictV(<<Entry("status", StrV(<<"success">>)),
            Entry("operation", StrV(<<"multiplication">>)),
            Entry("a", x),
            Entry("b", y),
            Entry("result", product),
            Entry("message", StrV(<<"Successfully multiplied ">> \o PyStr(x)
                                   \o <<" and ">> \o PyStr(y)))>>)

\* the dict literal of the success return
BuildSuccess(c) ==
    IF FmtRaises(c.a) \/ FmtRaises(c.b)
    THEN Raise(c, Exc("ValueError", DigitsMsg))
    ELSE [c EXCEPT !.envelope = SuccessEnvelope(c.a, c.b, c.result), !.pc = "succeeded"]

\* return format_response({...}), the call itself
FormatSuccess(c, enabled) ==
    [c EXCEPT !.ret = format_response(c.envelope, enabled), !.fmt = @ + 1, !.pc = "formatted"]

\* a slip: the handler without its logger.error call
LogError_Silent(c) == [c EXCEPT !.pc = "error_logged"]

\* logger.error(f"Error in multiply tool: {e}")
LogError(c) ==
    [c EXCEPT !.log = Append(@, LogEvent("error", <<"Error in multiply tool: ">> \o c.exc.msg.s)),
              !.pc = "error_logged"]

\* a slip: the error envelope carrying an empty result
ErrorEnvelope_WithResult(e) ==
    DictV(<<Entry("status", StrV(<<"error">>)),
            Entry("error", e.msg),
            Entry("result", Null),
            Entry("message", FailureMsg)>>)

ErrorEnvelope(e) ==
    DictV(<<Entry("status", StrV(<<"error">>)),
            Entry("error", e.msg),
            Entry("message", FailureMsg)>>)

\* the dict literal of the error return; str(e) is the exception's message
BuildError(c) == [c EXCEPT !.envelope = ErrorEnvelope(c.exc), !.pc = "error_built"]

\* a slip: the handler formats the envelope a second time
FormatError_Retry(c, enabled) ==
    [c EXCEPT !.ret = format_response(c.envelope, enabled), !.fmt = @ + 2, !.pc = "formatted"]

\* return format_response({...}) inside the handler
FormatError(c, enabled) ==
    [c EXCEPT !.ret = format_response(c.envelope, enabled), !.fmt = @ + 1, !.pc = "formatted"]

\* the value reaches the caller
Return(c) == [c EXCEPT !.pc = "returned"]

\* the next statement of an invocation
Step(c, enabled) ==
    CASE c.pc = "received"          -> EnterTry(c)
      [] c.pc = "validating"        -> Validate(c)
      [] c.pc = "failed_validation" -> Catch(c)
      [] c.pc = "computing"         -> Compute(c)
      [] c.pc = "computed"          -> LogInfo(c)
      [] c.pc = "info_logged"       -> BuildSuccess(c)
      [] c.pc = "succeeded"         -> FormatSuccess(c, enabled)
      [] c.pc = "failed"            -> LogError(c)
      [] c.pc = "error_logged"      -> BuildError(c)
      [] c.pc = "error_built"       -> FormatError(c, enabled)
      [] c.pc = "formatted"         -> Return(c)
      [] OTHER                      -> c

Finished(c) == c.pc \in {"returned", "raised"}

RECURSIVE Run(_, _)
Run(c, enabled) == IF Finished(c) THEN c ELSE Run(Step(c, enabled), enabled)

\* multiply_numbers(a, b) run to completion on its own
multiply_numbers(x, y, enabled) == Run(NewCall(x, y), enabled)

(***************************************************************************)
(* The server: the process-wide setting and the invocation in progress.    *)
(* codec is the bench on which a value is encoded and decoded again; calls *)
(* are the invocations in progress side by side and logger the module-     *)
(* level logger they all write to.                                         *)
(***************************************************************************)
VARIABLES ENABLE_TOON_FORMAT, call, codec, calls, logger

vars == <<ENABLE_TOON_FORMAT, call, codec, calls, logger>>

CodecIdle == [phase |-> "idle", v |-> Null, doc |-> Unset, out |-> Unset]

Init ==
    /\ ENABLE_TOON_FORMAT \in BOOLEAN
    /\ \E x \in Args, y \in Args : call = NewCall(x, y)
    /\ codec = CodecIdle
    /\ calls = <<>>
    /\ logger = <<>>

At(label, next) ==
    /\ call.pc = label
    /\ call' = next
    /\ UNCHANGED <<ENABLE_TOON_FORMAT, codec, calls, logger>>

DoEnterTry == At("received", EnterTry(call))
DoValidate == At("validating", Validate(call))
DoCatch == At("failed_validation", Catch(call))
DoCompute == At("computing", Compute(call))
DoLogInfo == At("computed", LogInfo(call))
DoBuildSuccess == At("info_logged", BuildSuccess(call))
DoFormatSuccess == At("succeeded", FormatSuccess(call, ENABLE_TOON_FORMAT))
DoLogError == At("failed", LogError(call))
DoBuildError == At("error_logged", BuildError(call))
DoFormatError == At("error_built", FormatError(call, ENABLE_TOON_FORMAT))
DoReturn == At("formatted", Return(call))

\* the caller invokes the tool again
Invoke ==
    /\ Finished(call)
    /\ \E x \in Args, y \in Args : call' = NewCall(x, y)
    /\ UNCHANGED <<ENABLE_TOON_FORMAT, codec, calls, logger>>

Next ==
    \/ DoEnterTry
    \/ DoValidate
    \/ DoCatch
    \/ DoCompute
    \/ DoLogInfo
    \/ DoBuildSuccess
    \/ DoFormatSuccess
    \/ DoLogError
    \/ DoBuildError
    \/ DoFormatError
    \/ DoReturn
    \/ Invoke

Spec == Init /\ [][Next]_vars

(***************************************************************************)
(* The codec on its own: a value is drawn, encoded with to_toon and        *)
(* decoded with from_toon.                                                 *)
(***************************************************************************)
SeqsUpTo(S, n) == UNION {[1..m -> S] : m \in 0..n}

KeyNames == <<"a", "b", "c", "d">>

CodecStrings ==
    {StrV(<<>>), StrV(<<"5">>), StrV(<<"h", "i">>), StrV(TrueChars), StrV(NullChars),
     StrV(<<"-", "1", ".", "5">>), StrV(<<"1", ".", "0">>), StrV(<<"a", ",", "b">>),
     StrV(<<"a", ":", " ", "b">>), StrV(<<"S", "\n", "\"", "\\">>), StrV(<<" ", "x">>),
     StrV(<<"-", "x">>), StrV(<<"1", ".">>)}

Scalars ==
    {Null, BoolV(TRUE), BoolV(FALSE)}
    \cup {IntV(n) : n \in (-MaxInt..MaxInt) \cup {BigInt, -BigInt}}
    \cup FloatArgs \cup {FloatV(9, 4), FloatV(-3, 1), FloatV(1, 8)}
    \cup CodecStrings

\* the elements of sequences and the values of flat mappings
Elems == {Null, BoolV(TRUE), IntV(1), FloatV(1, 1), StrV(<<"1">>), StrV(<<>>), StrV(<<"a", ",", "b">>)}

\* the cells of tabular sequences
Cells == {Null, IntV(1), FloatV(1, 2), StrV(<<"x">>)}

Lists == {ListV(xs) : xs \in SeqsUpTo(Elems, MaxLen)}

DictOver(vals) == DictV([j \in 1..Len(vals) |-> Entry(KeyNames[j], vals[j])])

FlatDicts == {DictOver(vals) : vals \in SeqsUpTo(Elems, MaxLen)}

Rows == {DictOver(vals) : vals \in [1..2 -> Cells]}

Tables == {ListV(xs) : xs \in SeqsUpTo(Rows, MaxLen) \ {<<>>}}

\* what a mapping may nest
Inner ==
    {IntV(1), Null, ListV(<<>>), DictV(<<>>), ListV(<<IntV(1), StrV(<<"2">>)>>),
     DictV(<<Entry("c", StrV(<<>>))>>), DictV(<<Entry("c", DictV(<<>>)), Entry("d", ListV(<<>>))>>),
     ListV(<<DictOver(<<IntV(1), Null>>), DictOver(<<FloatV(1, 1), StrV(<<"1">>)>>)>>)}

Nested == {DictOver(vals) : vals \in [1..2 -> Inner]}

\* the values handed to the codec
CodecValues == Scalars \cup Lists \cup FlatDicts \cup Tables \cup Nested

CodecInit ==
    /\ ENABLE_TOON_FORMAT = TRUE
    /\ call = NewCall(Null, Null)
    /\ calls = <<>>
    /\ logger = <<>>
    /\ \E v \in CodecValues : codec = [phase |-> "input", v |-> v, doc |-> Unset, out |-> Unset]

\* doc = to_toon(v)
CodecEncode ==
    /\ codec.phase = "input"
    /\ codec' = [codec EXCEPT !.doc = to_toon(codec.v), !.phase = "encoded"]
    /\ UNCHANGED <<ENABLE_TOON_FORMAT, call, calls, logger>>

\* out = from_toon(doc)
CodecDecode ==
    /\ codec.phase = "encoded"
    /\ codec' = [codec EXCEPT !.out = from_toon(codec.doc), !.phase = "decoded"]
    /\ UNCHANGED <<ENABLE_TOON_FORMAT, call, calls, logger>>

\* the next value
CodecDraw ==
    /\ codec.phase = "decoded"
    /\ \E v \in CodecValues : codec' = [phase |-> "input", v |-> v, doc |-> Unset, out |-> Unset]
    /\ UNCHANGED <<ENABLE_TOON_FORMAT, call, calls, logger>>

CodecNext == CodecEncode \/ CodecDecode \/ CodecDraw

SpecCodec == CodecInit /\ [][CodecNext]_vars

(***************************************************************************)
(* Concurrent invocations: NumCalls calls of multiply_numbers run side by  *)
(* side, their statements interleaved in any order.  Each call has its own *)
(* arguments and locals; the setting and the logger are module-level.      *)
(***************************************************************************)
\* the number of calls in flight
NumCalls == 2

CallIds == 1..NumCalls

\* the argument pairs of the concurrent calls: a float product, an overflowing
\* product, a product too long to render, a rejected string and an accepted boolean
ConcPairs ==
    {<<IntV(2), FloatV(1, 2)>>, <<IntV(BigInt), FloatV(1, 2)>>,
     <<IntV(BigInt), IntV(BigInt)>>, <<StrV(<<"5">>), IntV(2)>>,
     <<BoolV(TRUE), IntV(MaxInt)>>}

\* the events a statement added to its call's log, as the shared logger records them
Emitted(id, before, after) ==
    [j \in 1..(Len(after.log) - Len(before.log)) |->
        [id |-> id, level |-> after.log[Len(before.log) + j].level,
         msg |-> after.log[Len(before.log) + j].msg]]

\* a slip: result kept in a module-level variable that every call shares
StepIn_SharedResult(cs, id, enabled) ==
    LET after == Step(cs[id], enabled)
    IN  [j \in DOMAIN cs |->
           IF j = id THEN after
           ELSE IF after.result # cs[id].result /\ ~Finished(cs[j])
                THEN [cs[j] EXCEPT !.result = after.result]
                ELSE cs[j]]

\* the next statement of call id: a, b, result and e are locals of that call
StepIn(cs, id, enabled) == [cs EXCEPT ![id] = Step(cs[id], enabled)]

ConcInit ==
    /\ ENABLE_TOON_FORMAT \in BOOLEAN
    /\ call = NewCall(Null, Null)
    /\ codec = CodecIdle
    /\ \E args \in [CallIds -> ConcPairs] :
          calls = [id \in CallIds |-> NewCall(args[id][1], args[id][2])]
    /\ logger = <<>>

\* some call runs its next statement
ConcStep ==
    \E id \in CallIds :
        /\ ~Finished(calls[id])
        /\ calls' = StepIn(calls, id, ENABLE_TOON_FORMAT)
        /\ logger' = logger \o Emitted(id, calls[id], calls'[id])
        /\ UNCHANGED <<ENABLE_TOON_FORMAT, call, codec>>

SpecConc == ConcInit /\ [][ConcStep]_vars

(***************************************************************************)
(* Properties                                                              *)
(***************************************************************************)
\* an integer or a float of the Value model: a boolean is not a number
IsNumber(v) == v.t \in {"int", "float"}

Returned == call.pc = "returned"

\* the envelope the caller holds: the returned mapping, or the decoded returned text
ReturnedEnvelope == IF call.ret.t = "text" THEN from_toon(call.ret) ELSE call.ret

StatusOf(env) == IF Has(env, "status") THEN Get(env, "status") ELSE Unset

IsSuccess(env) == StatusOf(env) = StrV(<<"success">>)
IsError(env) == StatusOf(env) = StrV(<<"error">>)

CountLevel(lvl) == Cardinality({j \in 1..Len(call.log) : call.log[j].level = lvl})

IsValidationError(env) ==
    /\ IsError(env)
    /\ Has(env, "error") /\ Get(env, "error") = ValidationMsg
    /\ Has(env, "message") /\ Get(env, "message") = FailureMsg
    /\ ~Has(env, "result")

\* C2: a call in which at least one argument is not a number (null, boolean, string,
\* sequence or mapping) returns the validation error envelope: status "error", error
\* "Both inputs must be numbers", message "Failed to perform multiplication", no result.
C2_NonNumberRejected ==
    (Returned /\ (~IsNumber(call.a) \/ ~IsNumber(call.b))) => IsValidationError(ReturnedEnvelope)

\* the product as arithmetic states it, independently of how Mul computes it
IsProduct(r, x, y) ==
    IF x.t = "int" /\ y.t = "int"
    THEN r.t = "int" /\ r.i = x.i * y.i
    ELSE LET fx == ToFloat(x)
             fy == ToFloat(y)
         IN  r.t = "float" /\ r.num * (fx.den * fy.den) = fx.num * fy.num * r.den

IsSuccessOf(env, x, y) ==
    /\ IsSuccess(env)
    /\ Keys(env) = {"status", "operation", "a", "b", "result", "message"}
    /\ Get(env, "operation") = StrV(<<"multiplication">>)
    /\ Get(env, "a") = x
    /\ Get(env, "b") = y
    /\ IsProduct(Get(env, "result"), x, y)
    /\ Get(env, "message").t = "str"

NumericArgs == IsNumber(call.a) /\ IsNumber(call.b)

\* the interpreter can compute the product and render both arguments and the product
Computable(x, y) ==
    /\ ~MulRaises(x, y)
    /\ ~FmtRaises(x) /\ ~FmtRaises(y) /\ ~FmtRaises(Mul(x, y))

\* C3 as stated: every pair of numeric arguments yields the success envelope with the
\* arguments echoed and result their product, an integer for two integers and a float otherwise.
C3_Original ==
    (Returned /\ NumericArgs) => IsSuccessOf(ReturnedEnvelope, call.a, call.b)

\* C3, amended: every pair of numeric arguments whose product the interpreter can
\* compute and render yields the success envelope with the arguments echoed and result
\* their product, an integer for two integers and a float otherwise; every other
\* numeric pair yields an error envelope.
C3_Amended ==
    (Returned /\ NumericArgs) =>
        IF Computable(call.a, call.b)
        THEN IsSuccessOf(ReturnedEnvelope, call.a, call.b)
        ELSE IsError(ReturnedEnvelope) /\ ~Has(ReturnedEnvelope, "result")

\* an integer times a float returned as a success envelope carrying a float
C3_Witness ==
    /\ Returned
    /\ call.a = IntV(2) /\ call.b = FloatV(-3, 2)
    /\ IsSuccess(ReturnedEnvelope)
    /\ Get(ReturnedEnvelope, "result") = FloatV(-3, 1)

\* the envelope of the same call with its arguments swapped
Swapped ==
    LET other == multiply_numbers(call.b, call.a, ENABLE_TOON_FORMAT)
    IN  IF other.ret.t = "text" THEN from_toon(other.ret) ELSE other.ret

\* C4 as stated: for all numeric a, b both multiply_numbers(a, b) and
\* multiply_numbers(b, a) return success envelopes, with equal results.
C4_Original ==
    (Returned /\ NumericArgs) =>
        /\ IsSuccess(ReturnedEnvelope)
        /\ IsSuccess(Swapped)
        /\ Get(ReturnedEnvelope, "result") = Get(Swapped, "result")

\* C4, amended: for all numeric a, b the calls multiply_numbers(a, b) and
\* multiply_numbers(b, a) return envelopes of the same status; when the product can
\* be computed and rendered both are success envelopes with equal results, otherwise
\* both are error envelopes.
C4_Amended ==
    (Returned /\ NumericArgs) =>
        /\ StatusOf(ReturnedEnvelope) = StatusOf(Swapped)
        /\ IF Computable(call.a, call.b)
           THEN /\ IsSuccess(ReturnedEnvelope)
                /\ Get(ReturnedEnvelope, "result") = Get(Swapped, "result")
           ELSE IsError(ReturnedEnvelope)

\* a float times a different integer succeeded
C4_Witness ==
    /\ Returned
    /\ call.a = FloatV(1, 2) /\ call.b = IntV(MaxInt)
    /\ IsSuccess(ReturnedEnvelope)
    /\ IsSuccess(Swapped)

AtFormat == call.pc \in {"succeeded", "error_built"}

\* C5: format_response returns to_toon(payload) when ENABLE_TOON_FORMAT is true and
\* the payload itself when it is false; the call reads the flag once and changes
\* neither the flag nor the payload.
C5_FormatResponse ==
    [][AtFormat =>
         /\ call'.ret = (IF ENABLE_TOON_FORMAT THEN to_toon(call.envelope) ELSE call.envelope)
         /\ call'.ret.t = (IF ENABLE_TOON_FORMAT THEN "text" ELSE "dict")
         /\ call'.envelope = call.envelope
         /\ call'.fmt = call.fmt + 1
         /\ ENABLE_TOON_FORMAT' = ENABLE_TOON_FORMAT]_vars

\* format_response has passed a payload through unchanged
C5_Witness ==
    /\ call.pc = "formatted"
    /\ ~ENABLE_TOON_FORMAT
    /\ call.ret = call.envelope
    /\ call.ret.t = "dict"

C8_EnvelopeShape ==
    Returned =>
        /\ call.fmt = 1
        /\ \/ /\ IsSuccess(ReturnedEnvelope)
              /\ {"status", "operation", "a", "b", "result", "message"} \subseteq Keys(ReturnedEnvelope)
              /\ ~Has(ReturnedEnvelope, "error")
           \/ /\ IsError(ReturnedEnvelope)
              /\ {"status", "error", "message"} \subseteq Keys(ReturnedEnvelope)
              /\ ~Has(ReturnedEnvelope, "result")
              /\ ~Has(ReturnedEnvelope, "operation")

\* an error envelope for an overflowing product was returned
C8_Witness ==
    /\ Returned
    /\ IsError(ReturnedEnvelope)
    /\ Get(ReturnedEnvelope, "error") = OverflowMsg

\* C9: a call that returns a success envelope has emitted one info event and no
\* error event; a call that returns an error envelope has emitted one error event and
\* no info event; no call returns without a log event.
C9_LogMatchesOutcome ==
    Returned =>
        /\ Len(call.log) = 1
        /\ IsSuccess(ReturnedEnvelope) => CountLevel("info") = 1 /\ CountLevel("error") = 0
        /\ IsError(ReturnedEnvelope) => CountLevel("error") = 1 /\ CountLevel("info") = 0

\* a rejected call returned after logging its error
C9_Witness ==
    /\ Returned
    /\ call.a = StrV(<<"5">>)
    /\ IsError(ReturnedEnvelope)
    /\ call.log = <<LogEvent("error", <<"Error in multiply tool: ", "Both inputs must be numbers">>)>>

\* the stage of the tool contract's state machine a position belongs to
Phase(label) ==
    CASE label \in {"computing", "computed"}                 -> "computing"
      [] label \in {"info_logged", "succeeded"}              -> "succeeded"
      [] label \in {"failed", "error_logged", "error_built"} -> "failed"
      [] OTHER                                               -> label

Linear ==
    {<<"received", "validating">>, <<"validating", "computing">>,
     <<"validating", "failed_validation">>, <<"computing", "succeeded">>,
     <<"computing", "failed">>, <<"failed_validation", "failed">>,
     <<"succeeded", "formatted">>, <<"failed", "formatted">>, <<"formatted", "returned">>}

\* the order of the statements of one call
Rank(label) ==
    CASE label = "received" -> 0
      [] label = "validating" -> 1
      [] label \in {"computing", "failed_validation"} -> 2
      [] label = "computed" -> 3
      [] label = "info_logged" -> 4
      [] label = "succeeded" -> 5
      [] label = "failed" -> 6
      [] label = "error_logged" -> 7
      [] label = "error_built" -> 8
      [] label = "formatted" -> 9
      [] OTHER -> 10

\* C10: a call is one linear pass received, validating, computing or failed
\* validation, succeeded or failed, formatted, returned: the product is computed only
\* after both arguments passed validation, format_response runs exactly once, no
\* statement runs twice, and a call that succeeded never fails.
C10_LinearPass ==
    /\ [][\/ Finished(call) /\ call'.pc = "received"
          \/ /\ ~Finished(call)
             /\ Rank(call'.pc) > Rank(call.pc)
             /\ call'.a = call.a /\ call'.b = call.b
             /\ \/ Phase(call'.pc) = Phase(call.pc)
                \/ <<Phase(call.pc), Phase(call'.pc)>> \in Linear
             /\ call'.fmt = call.fmt + (IF call'.pc = "formatted" THEN 1 ELSE 0)]_vars
    /\ [](call.result # Unset => IsIntOrFloat(call.a) /\ IsIntOrFloat(call.b)
                                 /\ Rank(call.pc) >= 3 /\ call.exc # Exc("ValueError", ValidationMsg))
    /\ [](call.fmt = (IF call.pc \in {"formatted", "returned"} THEN 1 ELSE 0))

\* a call that computed a product and then failed before succeeding has returned
C10_Witness ==
    /\ Returned
    /\ call.result = IntV(BigInt * BigInt)
    /\ call.exc = Exc("ValueError", DigitsMsg)
    /\ call.fmt = 1

\* the events of call id in the shared logger, in order
RECURSIVE EventsOf(_, _)
EventsOf(id, events) ==
    IF events = <<>> THEN <<>>
    ELSE (IF Head(events).id = id
          THEN <<LogEvent(Head(events).level, Head(events).msg)>> ELSE <<>>)
         \o EventsOf(id, Tail(events))

\* the same call run alone on its own arguments
Alone(id) == multiply_numbers(calls[id].a, calls[id].b, ENABLE_TOON_FORMAT)

\* C11: under every interleaving of concurrent multiply_numbers calls, with
\* ENABLE_TOON_FORMAT fixed, each call returns exactly the value it returns when run
\* alone on its own arguments and logs the same events; a statement of one call
\* changes nothing of another call, and no call changes the flag.
C11_Independent ==
    /\ [](\A id \in CallIds :
            /\ Finished(calls[id]) => calls[id] = Alone(id)
            /\ EventsOf(id, logger) = calls[id].log)
    /\ [][/\ ENABLE_TOON_FORMAT' = ENABLE_TOON_FORMAT
          /\ \E id \in CallIds :
                /\ calls'[id] = Step(calls[id], ENABLE_TOON_FORMAT)
                /\ \A other \in CallIds \ {id} : calls'[other] = calls[other]]_vars

\* two calls with different outcomes have both returned, the second call's event
\* logged before the first call's
C11_Witness ==
    /\ \A id \in CallIds : calls[id].pc = "returned"
    /\ IsSuccess(IF calls[1].ret.t = "text" THEN from_toon(calls[1].ret) ELSE calls[1].ret)
    /\ calls[2].exc = Exc("OverflowError", OverflowMsg)
    /\ Len(logger) >= 2
    /\ logger[1].id = 2 /\ logger[1].level = "error"
    /\ \E j \in 2..Len(logger) : logger[j].id = 1 /\ logger[j].level = "info"

====
